---- MODULE Spec2Model ----
(***************************************************************************)
(* Model of web/middleware/recovery.go: the gin middleware RecoveryJSON,   *)
(* its helpers dumpRequestSafe and isBrokenPipe, and the part of the gin   *)
(* context (handler index, abort, response writer, c.Errors) they act on.  *)
(*                                                                         *)
(* Texts whose characters matter (error messages, matched by substring     *)
(* after lower-casing) are sequences of one-character strings.  The        *)
(* request dump is a sequence of lines, the response body a sequence of    *)
(* tokens.                                                                 *)
(***************************************************************************)
EXTENDS Integers, Sequences, FiniteSets, TLC

\* ------------------------------------------------------------------ bounds
\* Longest chain of wrapped errors a handler panics with.
MaxDepth == 2
\* Most values one request header carries.
MaxValues == 2
\* Handlers registered after the interceptor.
MaxHandlers == 2

\* --------------------------------------------------------------- constants
\* http.StatusInternalServerError
StatusInternalServerError == 500
\* gin's response writer starts at http.StatusOK
DefaultStatus == 200
\* gin's abortIndex: c.Abort() sets c.index to it
AbortIndex == 63

\* ------------------------------------------------------------------- texts
UpperChars == <<"A","B","C","D","E","F","G","H","I","J","K","L","M",
                "N","O","P","Q","R","S","T","U","V","W","X","Y","Z">>
LowerChars == <<"a","b","c","d","e","f","g","h","i","j","k","l","m",
                "n","o","p","q","r","s","t","u","v","w","x","y","z">>

LowerChar(c) ==
    IF \E i \in 1..Len(UpperChars) : UpperChars[i] = c
    THEN LowerChars[CHOOSE i \in 1..Len(UpperChars) : UpperChars[i] = c]
    ELSE c

\* strings.ToLower
ToLower(s) == [i \in 1..Len(s) |-> LowerChar(s[i])]

\* strings.Contains
Contains(s, sub) ==
    \E i \in 1..(Len(s) - Len(sub) + 1) : SubSeq(s, i, i + Len(sub) - 1) = sub

TxtBrokenPipe == <<"b","r","o","k","e","n"," ","p","i","p","e">>
TxtConnReset == <<"c","o","n","n","e","c","t","i","o","n"," ","r","e","s","e","t",
                  " ","b","y"," ","p","e","e","r">>

\* the two substring tests of isBrokenPipe, on an already lower-cased text
HasMarker(s) == Contains(s, TxtBrokenPipe) \/ Contains(s, TxtConnReset)

\* Messages errors and panic values carry.
MsgEOF == <<"u","n","e","x","p","e","c","t","e","d"," ","E","O","F">>
MsgPipe == <<"B","r","o","k","e","n"," ","P","i","p","e">>
MsgReset == <<"C","o","n","n","e","c","t","i","o","n"," ","R","E","S","E","T",
              " ","b","y"," ","p","e","e","r">>
Msgs == {MsgEOF, MsgPipe, MsgReset}

\* ------------------------------------------------------------------ errors
\* An error is the chain of its wrapped causes, outermost first.  A "plain"
\* node is any error type with its own message (errors.New, a custom wrapper,
\* fmt.Errorf); an "op" node is a *net.OpError, whose Err (inner = TRUE) is an
\* error with message msg, or nil (inner = FALSE).  An op node ends the chain.
Plain(m) == [kind |-> "plain", msg |-> m, inner |-> FALSE]
OpErr(m) == [kind |-> "op", msg |-> m, inner |-> TRUE]
OpErrNil == [kind |-> "op", msg |-> <<>>, inner |-> FALSE]
NilErr == <<>>

OpName == <<"w","r","i","t","e">>

\* (*net.OpError).Error with Net, Source and Addr unset: Op + ": " + Err.Error()
OpErrorText(n) == OpName \o <<":", " ">> \o n.msg

\* err.Error() of the error whose chain starts at level i
ErrorTextAt(e, i) == IF e[i].kind = "op" THEN OpErrorText(e[i]) ELSE e[i].msg

ErrorText(e) == ErrorTextAt(e, 1)

PlainChains(n) == UNION {[1..k -> {Plain(m) : m \in Msgs}] : k \in 1..n}

\* The errors handlers panic with: every chain of at most MaxDepth nodes whose
\* Error method returns (a *net.OpError with a nil Err is only ever wrapped).
Errors ==
    PlainChains(MaxDepth)
    \cup {<<OpErr(m)>> : m \in Msgs}
    \cup {Append(p, OpErr(m)) : p \in PlainChains(MaxDepth - 1), m \in Msgs}
    \cup {Append(p, OpErrNil) : p \in PlainChains(MaxDepth - 1)}

\* A panic value: an error, or any other value (here a string) with its text.
ErrorValue(e) == [isError |-> TRUE, chain |-> e]
StringValue(m) == [isError |-> FALSE, chain |-> <<Plain(m)>>]
NoPanic == [isError |-> FALSE, chain |-> <<>>]

PanicValues == {ErrorValue(e) : e \in Errors} \cup {StringValue(m) : m \in Msgs}

\* fmt.Errorf("%v", v): an error whose message is the value's text
Errorf(v) == IF v.chain = <<>> THEN <<Plain(<<"<","n","i","l",">">>)>> ELSE <<Plain(v.chain[1].msg)>>

\* lines 26-32: the recovered value as an error
Normalize(v) == IF v.isError THEN v.chain ELSE Errorf(v)

\* errors.As(err, &ne): the first *net.OpError of the chain (0: none)
FirstOpError(e) ==
    IF \E i \in 1..Len(e) : e[i].kind = "op"
    THEN CHOOSE i \in 1..Len(e) : e[i].kind = "op" /\ \A j \in 1..(i-1) : e[j].kind # "op"
    ELSE 0

isBrokenPipe_OpAlways(e) ==
    IF e = NilErr THEN FALSE
    ELSE IF FirstOpError(e) # 0 THEN TRUE
    ELSE HasMarker(ToLower(ErrorText(e)))

isBrokenPipe(e) ==
    IF e = NilErr THEN FALSE
    ELSE LET i == FirstOpError(e)
         IN IF i # 0 /\ e[i].inner
            THEN HasMarker(ToLower(e[i].msg))
            ELSE HasMarker(ToLower(ErrorText(e)))

\* Some message of the chain, at any level, carries a marker.
AnyMessageHasMarker(e) ==
    \E i \in 1..Len(e) :
        \/ HasMarker(ToLower(ErrorTextAt(e, i)))
        \/ e[i].kind = "op" /\ e[i].inner /\ HasMarker(ToLower(e[i].msg))

\* ----------------------------------------------------------------- headers
\* line 73-76: the headers dumpRequestSafe masks, in its order
SensitiveHeaders == <<"Authorization", "Proxy-Authorization", "Cookie", "Set-Cookie",
                      "X-Api-Key", "X-Auth-Token">>
Redacted == "***REDACTED***"

\* Header keys of a request as net/http stores them (canonical form), in the
\* sorted order Header.WriteSubset writes them.
HeaderKeys == <<"Authorization", "Cookie", "Proxy-Authorization", "Set-Cookie",
                "X-Api-Key", "X-Auth-Token", "X-Request-Id">>
KeySet == {HeaderKeys[i] : i \in 1..Len(HeaderKeys)}
SensitiveSet == {SensitiveHeaders[i] : i \in 1..Len(SensitiveHeaders)}

\* textproto.CanonicalMIMEHeaderKey on the names the middleware passes
CanonicalKey(k) == IF k = "X-Request-ID" THEN "X-Request-Id" ELSE k

\* http.Header.Get: the first value under the canonical key, "" when none
Get(h, k) == IF Len(h[CanonicalKey(k)]) = 0 THEN "" ELSE h[CanonicalKey(k)][1]

\* http.Header.Set: the key's values replaced by the one value
Set(h, k, v) == [h EXCEPT ![CanonicalKey(k)] = <<v>>]

EmptyHeader == [k \in KeySet |-> <<>>]

SecretValues == {"", "secret123"}
ValueLists == UNION {[1..n -> SecretValues] : n \in 0..MaxValues}
ReqIdLists == {<<>>, <<"rid-1">>, <<"rid-2">>}

HeaderWith(k, vals, rid) ==
    [n \in KeySet |-> IF n = k THEN vals ELSE IF n = "X-Request-Id" THEN rid ELSE <<>>]

\* Requests with at most an Authorization token and a request id.
BasicHeaders == {HeaderWith("Authorization", v, r) : v \in {<<>>, <<"secret123">>}, r \in ReqIdLists}
\* Requests with any one sensitive header carrying up to MaxValues values.
AllHeaders == {HeaderWith(k, v, r) : k \in SensitiveSet, v \in ValueLists, r \in {<<>>, <<"rid-1">>}}

\* ------------------------------------------------------------ request dump
\* Header objects live on a heap: "orig" is r.Header, "clone" the copy that
\* dumpRequestSafe allocates.
CloneRef_Alias(src) == src

\* line 72: r.Header.Clone() returns a newly allocated header
CloneRef(src) == "clone"

\* line 72: the heap after redacted := r.Header.Clone()
Clone(heap, src) == [heap EXCEPT ![CloneRef(src)] = heap[src]]

\* lines 73-80: mask the sensitive headers of the header at ref, from the i-th on
RECURSIVE RedactFrom(_, _, _)
RedactFrom(heap, ref, i) ==
    IF i > Len(SensitiveHeaders) THEN heap
    ELSE LET k == SensitiveHeaders[i]
             next == IF Get(heap[ref], k) # ""
                     THEN [heap EXCEPT ![ref] = Set(heap[ref], k, Redacted)]
                     ELSE heap
         IN RedactFrom(next, ref, i + 1)

\* one "Key: value" line per value of the keys from the i-th on
RECURSIVE HeaderLines(_, _)
HeaderLines(h, i) ==
    IF i > Len(HeaderKeys) THEN <<>>
    ELSE [j \in 1..Len(h[HeaderKeys[i]]) |-> <<HeaderKeys[i], h[HeaderKeys[i]][j]>>]
         \o HeaderLines(h, i + 1)

RequestLine == <<"GET", "/panel/", "HTTP/1.1">>
HostLine == <<"Host", "example.com">>
BlankLine == <<>>

\* httputil.DumpRequest(req, body): request line, Host, headers, blank line;
\* it reads the body only when body is TRUE; ok = FALSE is its error return
DumpRequest(h, body, ok) ==
    [err |-> ~ok,
     lines |-> IF ok THEN <<RequestLine, HostLine>> \o HeaderLines(h, 1) \o <<BlankLine>>
               ELSE <<>>,
     readsBody |-> body]

\* strings.TrimSpace on a text of lines: leading and trailing blank lines go
RECURSIVE TrimSpace(_)
TrimSpace(t) ==
    IF t = <<>> THEN t
    ELSE IF t[1] = BlankLine THEN TrimSpace(Tail(t))
    ELSE IF t[Len(t)] = BlankLine THEN TrimSpace(SubSeq(t, 1, Len(t) - 1))
    ELSE t

\* line 90: fmt.Sprintf("could not dump request: %v", err)
Placeholder == <<<<"could not dump request", "error">>>>

\* lines 70-93 on the request whose header is heap["orig"]
dumpRequestSafe(heap, ok) ==
    LET ref == CloneRef("orig")
        redacted == RedactFrom(Clone(heap, "orig"), ref, 1)
        d == DumpRequest(redacted[ref], FALSE, ok)
    IN [heap |-> redacted,
        readsBody |-> d.readsBody,
        text |-> IF d.err THEN Placeholder ELSE TrimSpace(d.lines)]

\* --------------------------------------------------------- response writer
\* gin's responseWriter: status is the pending code, written whether the
\* status line went out, wire the code that went out, body the tokens written.
NewWriter == [status |-> DefaultStatus, written |-> FALSE, wire |-> 0,
              ctype |-> "", body |-> <<>>]

\* (*responseWriter).WriteHeader: a code is not taken once the header is out
WriteHeader(w, code) ==
    IF code > 0 /\ w.status # code /\ ~w.written THEN [w EXCEPT !.status = code] ELSE w

\* (*responseWriter).WriteHeaderNow
WriteHeaderNow(w) ==
    IF w.written THEN w ELSE [w EXCEPT !.written = TRUE, !.wire = w.status]

\* (*responseWriter).Write
Write(w, data) == [WriteHeaderNow(w) EXCEPT !.body = @ \o data]

\* render's writeContentType: only when no Content-Type is set
WriteContentType(w, ct) == IF w.ctype = "" THEN [w EXCEPT !.ctype = ct] ELSE w

\* encoding/json of the gin.H map: keys in sorted order
MarshalJSON(obj) ==
    <<"{", "error", obj.error, "message", obj.message, "requestId", obj.requestId, "}">>

ErrorBody_LeakErr(reqID, e) ==
    [error |-> "internal_error", message |-> e[1].kind, requestId |-> reqID]

\* lines 58-62: the gin.H the interceptor answers with
ErrorBody(reqID, e) ==
    [error |-> "internal_error", message |-> "Something went wrong", requestId |-> reqID]

\* c.JSON(code, obj): status, content type, body
RenderJSON(w, code, obj) ==
    Write(WriteContentType(WriteHeader(w, code), "application/json; charset=utf-8"),
          MarshalJSON(obj))

Abort_Noop(idx) == idx

\* c.Abort()
Abort(idx) == AbortIndex

\* c.IsAborted()
IsAborted(idx) == idx >= AbortIndex

ShouldRecover_Always(rec) == TRUE

\* line 24: rec := recover(); rec != nil
ShouldRecover(rec) == rec # NoPanic

\* ------------------------------------------------------------------- state
VARIABLES
    pc,          \* "idle", "run", "panicking", "logged", "responded", "done", "escaped"
    index,       \* c.index: the handler being run; the interceptor is handler 0
    inIcpt,      \* the interceptor's frame (and its deferred function) is on the stack
    reqPresent,  \* c.Request # nil
    hdrHeap,     \* the header objects: "orig" is c.Request.Header
    reqBody,     \* "unread" or "consumed"
    resp,        \* c.Writer
    ctxErrors,   \* c.Errors
    fault,       \* the value the inner chain panicked with, NoPanic when none
    err,         \* the recovered value as an error
    brokenPipe,  \* line 35
    logs,        \* the lines log.Printf wrote for this request
    icptOut,     \* what the interceptor passed to the response writer
    atFault,     \* response, c.Errors, header and body state when the panic was raised
    innerEnd,    \* response, c.Errors and index when the inner chain returned
    ranAfter,    \* handlers run after a fault was recovered
    prev         \* the interceptor's answer to an earlier request

vars == <<pc, index, inIcpt, reqPresent, hdrHeap, reqBody, resp, ctxErrors, fault, err,
          brokenPipe, logs, icptOut, atFault, innerEnd, ranAfter, prev>>

\* handlers of the chain: the interceptor and MaxHandlers after it
NumHandlers == MaxHandlers + 1

NoSnapshot == [resp |-> NewWriter, errors |-> <<>>, header |-> EmptyHeader,
               body |-> "unread", index |-> 0]
Snapshot(w, es, h, b, i) == [resp |-> w, errors |-> es, header |-> h, body |-> b, index |-> i]

NoPrev == [set |-> FALSE, rid |-> <<>>, out |-> <<>>, errText |-> <<>>, auth |-> <<>>]

Init ==
    /\ pc = "idle"
    /\ index = 0
    /\ inIcpt = FALSE
    /\ reqPresent = TRUE
    /\ hdrHeap = [orig |-> EmptyHeader, clone |-> EmptyHeader]
    /\ reqBody = "unread"
    /\ resp = NewWriter
    /\ ctxErrors = <<>>
    /\ fault = NoPanic
    /\ err = NilErr
    /\ brokenPipe = FALSE
    /\ logs = <<>>
    /\ icptOut = <<>>
    /\ atFault = NoSnapshot
    /\ innerEnd = NoSnapshot
    /\ ranAfter = 0
    /\ prev = NoPrev

\* The server takes a request: gin resets the context and calls c.Next(),
\* which moves to handler 0.  With keep, the request just answered by the
\* interceptor is remembered for comparison with later ones.
NewRequest(headers, presents, keep) ==
    /\ pc \in {"idle", "done", "escaped"}
    /\ \E h \in headers, present \in presents :
        /\ reqPresent' = present
        /\ hdrHeap' = [orig |-> IF present THEN h ELSE EmptyHeader, clone |-> EmptyHeader]
    /\ prev' = IF keep /\ pc = "done" /\ icptOut # <<>>
               THEN [set |-> TRUE, rid |-> hdrHeap["orig"]["X-Request-Id"], out |-> icptOut,
                     errText |-> ErrorText(err), auth |-> hdrHeap["orig"]["Authorization"]]
               ELSE prev
    /\ pc' = "run"
    /\ index' = 0
    /\ inIcpt' = FALSE
    /\ reqBody' = "unread"
    /\ resp' = NewWriter
    /\ ctxErrors' = <<>>
    /\ fault' = NoPanic
    /\ err' = NilErr
    /\ brokenPipe' = FALSE
    /\ logs' = <<>>
    /\ icptOut' = <<>>
    /\ atFault' = NoSnapshot
    /\ innerEnd' = NoSnapshot
    /\ ranAfter' = 0

\* lines 20-23, 66: the interceptor starts, defers its recovery and calls c.Next()
EnterInterceptor ==
    /\ pc = "run" /\ index = 0 /\ ~inIcpt
    /\ inIcpt' = TRUE
    /\ index' = index + 1
    /\ UNCHANGED <<pc, reqPresent, hdrHeap, reqBody, resp, ctxErrors, fault, err, brokenPipe,
                   logs, icptOut, atFault, innerEnd, ranAfter, prev>>

\* What a handler after the interceptor does before it returns or panics:
\* nothing, c.Status(201), a text/plain c.Writer.WriteString("partial"),
\* c.Error(..), c.Abort().
Effects == {"none", "status", "write", "error", "abort"}
AppError == <<Plain(MsgEOF)>>

RespAfter(w, eff) ==
    IF eff = "status" THEN WriteHeader(w, 201)
    ELSE IF eff = "write" THEN Write(WriteContentType(w, "text/plain"), <<"partial">>)
    ELSE w
ErrorsAfter(es, eff) == IF eff = "error" THEN Append(es, AppError) ELSE es
IndexAfter(i, eff) == IF eff = "abort" THEN AbortIndex ELSE i

\* c.Next()'s loop runs handler c.index; it returns (c.index++) or, inside the
\* interceptor's call of c.Next(), panics with a value.
RunStage(values) ==
    /\ pc = "run" /\ index >= 1 /\ index < NumHandlers
    /\ \E eff \in Effects :
        /\ resp' = RespAfter(resp, eff)
        /\ ctxErrors' = ErrorsAfter(ctxErrors, eff)
        /\ \/ /\ index' = IndexAfter(index, eff) + 1
              /\ UNCHANGED <<pc, fault, atFault>>
           \/ /\ inIcpt
              /\ \E v \in values : fault' = v
              /\ pc' = "panicking"
              /\ index' = IndexAfter(index, eff)
              /\ atFault' = Snapshot(resp', ctxErrors', hdrHeap["orig"], reqBody, index')
    /\ ranAfter' = IF logs # <<>> THEN ranAfter + 1 ELSE ranAfter
    /\ UNCHANGED <<inIcpt, reqPresent, hdrHeap, reqBody, err, brokenPipe, logs, icptOut,
                   innerEnd, prev>>

\* line 66 returns: the deferred function runs with recover() = nil (line 24)
\* and the interceptor returns to the loop that called it (c.index++).
NextReturns ==
    /\ pc = "run" /\ inIcpt /\ index >= NumHandlers
    /\ innerEnd' = Snapshot(resp, ctxErrors, hdrHeap["orig"], reqBody, index)
    /\ IF ShouldRecover(NoPanic)
       THEN /\ pc' = "panicking"
            /\ atFault' = innerEnd'
            /\ UNCHANGED <<index, inIcpt>>
       ELSE /\ inIcpt' = FALSE
            /\ index' = index + 1
            /\ UNCHANGED <<pc, atFault>>
    /\ UNCHANGED <<reqPresent, hdrHeap, reqBody, resp, ctxErrors, fault, err, brokenPipe,
                   logs, icptOut, ranAfter, prev>>

LogLine(bp, e, dump) == [brokenPipe |-> bp, err |-> ErrorText(e), request |-> dump,
                         stack |-> "stack"]

\* lines 24-46: normalize, classify, dump the request, log.  A nil request makes
\* line 72 panic inside the deferred function: the fault leaves the interceptor.
Recover ==
    /\ pc = "panicking"
    /\ err' = Normalize(fault)
    /\ brokenPipe' = isBrokenPipe(err')
    /\ IF reqPresent
       THEN \E ok \in BOOLEAN :
              LET d == dumpRequestSafe(hdrHeap, ok)
              IN /\ hdrHeap' = d.heap
                 /\ reqBody' = IF d.readsBody THEN "consumed" ELSE reqBody
                 /\ logs' = Append(logs, LogLine(brokenPipe', err', d.text))
                 /\ pc' = "logged"
                 /\ UNCHANGED inIcpt
       ELSE /\ pc' = "escaped"
            /\ inIcpt' = FALSE
            /\ UNCHANGED <<hdrHeap, reqBody, logs>>
    /\ UNCHANGED <<index, reqPresent, resp, ctxErrors, fault, icptOut, atFault, innerEnd,
                   ranAfter, prev>>

\* c.GetHeader(key)
GetHeader(key) == Get(hdrHeap["orig"], key)

RecordError_Drop(es, e) == es

\* line 50: c.Error(err) appends the error to c.Errors
RecordError(es, e) == Append(es, e)

\* lines 48-62: record the error and abort, or abort with the JSON answer
Respond ==
    /\ pc = "logged"
    /\ IF brokenPipe
       THEN /\ ctxErrors' = RecordError(ctxErrors, err)
            /\ index' = Abort(index)
            /\ UNCHANGED <<resp, icptOut>>
       ELSE LET body == ErrorBody(GetHeader("X-Request-ID"), err)
            IN /\ index' = Abort(index)
               /\ resp' = RenderJSON(resp, StatusInternalServerError, body)
               /\ icptOut' = Append(icptOut, [code |-> StatusInternalServerError,
                                              body |-> MarshalJSON(body)])
               /\ UNCHANGED ctxErrors
    /\ pc' = "responded"
    /\ UNCHANGED <<inIcpt, reqPresent, hdrHeap, reqBody, fault, err, brokenPipe, logs,
                   atFault, innerEnd, ranAfter, prev>>

\* lines 63-64: the deferred function and with it the interceptor return to the
\* loop that called the interceptor (c.index++)
InterceptorReturns ==
    /\ pc = "responded"
    /\ inIcpt' = FALSE
    /\ index' = index + 1
    /\ pc' = "run"
    /\ UNCHANGED <<reqPresent, hdrHeap, reqBody, resp, ctxErrors, fault, err, brokenPipe,
                   logs, icptOut, atFault, innerEnd, ranAfter, prev>>

\* the outer loop finds no handler left: the response is complete
Finish ==
    /\ pc = "run" /\ ~inIcpt /\ index >= NumHandlers
    /\ pc' = "done"
    /\ resp' = WriteHeaderNow(resp)
    /\ UNCHANGED <<index, inIcpt, reqPresent, hdrHeap, reqBody, ctxErrors, fault, err,
                   brokenPipe, logs, icptOut, atFault, innerEnd, ranAfter, prev>>

Step(headers, presents, values, keep) ==
    \/ NewRequest(headers, presents, keep)
    \/ EnterInterceptor
    \/ RunStage(values)
    \/ NextReturns
    \/ Recover
    \/ Respond
    \/ InterceptorReturns
    \/ Finish

SimpleValues == {StringValue(MsgEOF), ErrorValue(<<OpErr(MsgPipe)>>)}
PairValues == SimpleValues \cup {ErrorValue(<<Plain(MsgEOF)>>), ErrorValue(<<OpErr(MsgEOF)>>)}

\* Requests the gin engine dispatches: c.Request is never nil.
Next == Step(BasicHeaders, {TRUE}, PanicValues, FALSE)
Spec == Init /\ [][Next]_vars

\* The same, over every header shape and two faults.
NextHeaders == Step(AllHeaders, {TRUE}, SimpleValues, FALSE)
SpecHeaders == Init /\ [][NextHeaders]_vars

\* The same, one request after another, the earlier answer kept.
NextPair == Step(BasicHeaders, {TRUE}, PairValues, TRUE)
SpecPair == Init /\ [][NextPair]_vars

\* The handler called on any context, also one without a request
\* (gin.CreateTestContext).
NextBare == Step(BasicHeaders, BOOLEAN, SimpleValues, FALSE)
SpecBare == Init /\ [][NextBare]_vars

\* ------------------------------------------------------------------ claims
\* The fault of this request has been recovered and answered.
Answered == fault # NoPanic /\ pc \in {"responded", "run", "done"}

\* The inbound X-Request-ID value of the request: its first value, "" when absent.
InboundRequestId ==
    IF atFault.header["X-Request-Id"] = <<>> THEN "" ELSE atFault.header["X-Request-Id"][1]

FixedBody ==
    <<"{", "error", "internal_error", "message", "Something went wrong",
      "requestId", InboundRequestId, "}">>

\* C1: whatever the inner chain did to the response before it faulted, a fault
\* not classified broken-pipe gives the client status 500 and exactly the
\* three-field JSON body with the inbound request id.
C1_ClientGets500Json ==
    (pc = "done" /\ fault # NoPanic /\ ~brokenPipe)
        => (resp.wire = StatusInternalServerError /\ resp.body = FixedBody)

\* C2: for a fault classified broken-pipe the interceptor writes no status and
\* no bytes, records the normalized error on the context exactly once and
\* leaves the request aborted.
C2_BrokenPipeSilent ==
    (Answered /\ brokenPipe)
        => /\ icptOut = <<>>
           /\ ctxErrors = Append(atFault.errors, Normalize(fault))
           /\ IsAborted(index)
           /\ pc = "responded" => resp = atFault.resp
           /\ pc = "done" => resp = WriteHeaderNow(atFault.resp)

C2_Witness ==
    /\ pc = "done" /\ fault # NoPanic /\ brokenPipe
    /\ atFault.errors # <<>>
    /\ atFault.resp.body # <<>>

\* C3: the classifier is true for every error some message of whose chain, at
\* any level, contains a marker case-insensitively, also when the top-level
\* message does and a wrapped network error's inner cause does not.
C3_MarkerAnywhereClassified ==
    (logs # <<>> /\ fault # NoPanic /\ AnyMessageHasMarker(Normalize(fault))) => brokenPipe

DumpLines == logs[1].request
InDump(line) == \E i \in 1..Len(DumpLines) : DumpLines[i] = line
NonEmptyValues(k) ==
    {atFault.header[k][i] : i \in 1..Len(atFault.header[k])} \ {""}

\* C4: no non-empty value of a sensitive header appears in the dump, the
\* header appears with the marker instead, also when the header carries
\* several values and the first is empty.
C4_SecretsRedacted ==
    (logs # <<>> /\ fault # NoPanic /\ DumpLines # Placeholder)
        => \A k \in SensitiveSet :
             /\ \A v \in NonEmptyValues(k) : ~InDump(<<k, v>>)
             /\ NonEmptyValues(k) # {} => InDump(<<k, Redacted>>)

\* C5: no fault leaves the interceptor, neither the original one nor one raised
\* while recovering; a request that is absent or cannot be dumped gives the
\* placeholder text, and the log line and the response branch still happen.
C5_NoFaultEscapes ==
    /\ pc # "escaped"
    /\ (pc = "done" /\ fault # NoPanic) => (Len(logs) = 1 /\ IsAborted(index))

\* C6: when the inner chain returns without a fault the interceptor logs
\* nothing, writes nothing, records no error and does not abort: the response
\* is what the inner chain produced.
C6_NoFaultNoEffect ==
    ((pc = "done" \/ (pc = "run" /\ ~inIcpt /\ index > 0)) /\ fault = NoPanic)
        => /\ logs = <<>>
           /\ icptOut = <<>>
           /\ ctxErrors = innerEnd.errors
           /\ IsAborted(index) <=> IsAborted(innerEnd.index)
           /\ resp = IF pc = "done" THEN WriteHeaderNow(innerEnd.resp) ELSE innerEnd.resp

C6_Witness ==
    /\ pc = "done" /\ fault = NoPanic
    /\ innerEnd.resp.body # <<>>
    /\ innerEnd.errors # <<>>

\* C7: a recovered fault gives exactly one log line and at most one response
\* write by the interceptor, the log line first; from then on the request is
\* aborted and no handler after the interceptor runs again.
C7_HandledOnce ==
    /\ Len(logs) <= 1
    /\ Len(icptOut) <= 1
    /\ icptOut # <<>> => Len(logs) = 1
    /\ pc = "logged" => (Len(logs) = 1 /\ icptOut = <<>>)
    /\ Answered => (Len(logs) = 1 /\ IsAborted(index) /\ ranAfter = 0)

C7_Witness ==
    /\ pc = "done" /\ fault # NoPanic
    /\ Len(icptOut) = 1
    /\ atFault.index + 1 < NumHandlers

\* C8: what the interceptor writes for a fault not classified broken-pipe
\* depends only on the inbound X-Request-ID: two requests with the same
\* X-Request-ID get the same status and body from it, whatever their faults
\* and their other headers.
C8_AnswerDependsOnRequestIdOnly ==
    (Answered /\ icptOut # <<>> /\ prev.set /\ prev.rid = atFault.header["X-Request-Id"])
        => icptOut = prev.out

C8_Witness ==
    /\ pc = "done" /\ fault # NoPanic /\ icptOut # <<>>
    /\ prev.set /\ prev.rid = atFault.header["X-Request-Id"]
    /\ prev.errText # ErrorText(err)
    /\ prev.auth # atFault.header["Authorization"]

\* C9: building the dump leaves the request as it was: every header name and
\* value, the masked ones included, and the body, which is not read.
C9_RequestUntouched ==
    (logs # <<>> /\ fault # NoPanic)
        => (hdrHeap["orig"] = atFault.header /\ reqBody = atFault.body)

C9_Witness ==
    /\ pc = "logged" /\ fault # NoPanic
    /\ \E k \in SensitiveSet : hdrHeap["clone"][k] = <<Redacted>> /\ Len(hdrHeap["orig"][k]) = MaxValues

\* C10: the classifier is false for a nil error and for every error none of
\* whose messages carries a marker; every such fault is answered with the 500
\* response.
C10_UnmarkedGets500 ==
    /\ ~isBrokenPipe(NilErr)
    /\ (logs # <<>> /\ fault # NoPanic /\ ~AnyMessageHasMarker(Normalize(fault)))
          => /\ ~brokenPipe
             /\ Answered => (Len(icptOut) = 1 /\ icptOut[1].code = StatusInternalServerError)

C10_Witness ==
    /\ pc = "done" /\ fault # NoPanic
    /\ ~AnyMessageHasMarker(Normalize(fault))
    /\ FirstOpError(err) = 2
    /\ Len(icptOut) = 1

====
